---------------------------- MODULE Spec2Model ----------------------------
(***************************************************************************)
(* Model of the /proxy target validation and forwarding core of            *)
(* safe-proxy-site.  The repository holds two server programs:             *)
(*   - src/unnamed/part_000 (validator parseAndValidateTarget, WHATWG URL) *)
(*   - src/server.js        (validator allowedTarget, url-parse URL)       *)
(* The variable impl says which of the two programs is running.            *)
(*                                                                         *)
(* JavaScript strings are sequences of one-character strings, so that      *)
(* parsing, lower-casing, prefix and suffix tests are computed.            *)
(***************************************************************************)
EXTENDS Integers, Sequences, FiniteSets, TLC

(***************************************************************************)
(* Bounds of the model.                                                    *)
(***************************************************************************)
\* Longest allowlist drawn from AllowEntries.
MaxAllowlist == 2
\* Most repeated url= parameters in one query string (?url=a&url=b).
MaxParams == 2
\* Most redirects the forwarder follows in one exchange in the model.
MaxRedirects == 2

(***************************************************************************)
(* String primitives (String.prototype methods used by the source).        *)
(***************************************************************************)
UpperChars == <<"A", "B", "C", "D", "E", "F", "G", "H", "I", "J", "K", "L", "M", "N", "O", "P", "Q", "R", "S", "T", "U", "V", "W", "X", "Y", "Z">>
LowerChars == <<"a", "b", "c", "d", "e", "f", "g", "h", "i", "j", "k", "l", "m", "n", "o", "p", "q", "r", "s", "t", "u", "v", "w", "x", "y", "z">>
DigitChars == <<"0", "1", "2", "3", "4", "5", "6", "7", "8", "9">>
HexLetters == <<"a", "b", "c", "d", "e", "f">>

Range(s) == {s[i] : i \in 1..Len(s)}

IsDigit(c) == c \in Range(DigitChars)
IsAlpha(c) == c \in Range(UpperChars) \cup Range(LowerChars)

DigitVal(c) == CHOOSE d \in 0..9 : DigitChars[d + 1] = c

LowerChar(c) ==
  IF c \in Range(UpperChars)
  THEN LowerChars[CHOOSE i \in 1..26 : UpperChars[i] = c]
  ELSE c

\* String.prototype.toLowerCase
toLowerCase(s) == [i \in 1..Len(s) |-> LowerChar(s[i])]

\* String.prototype.startsWith
startsWith(s, p) == Len(p) <= Len(s) /\ SubSeq(s, 1, Len(p)) = p

\* String.prototype.endsWith
endsWith(s, p) ==
  Len(p) <= Len(s) /\ SubSeq(s, Len(s) - Len(p) + 1, Len(s)) = p

\* String.prototype.includes, for a one-character needle
includes(s, c) == c \in Range(s)

\* String.prototype.indexOf for a one-character needle, 1-based; 0 when absent
indexOf(s, c) ==
  IF c \in Range(s) THEN CHOOSE i \in 1..Len(s) :
                           s[i] = c /\ \A j \in 1..(i - 1) : s[j] # c
  ELSE 0

\* String.prototype.lastIndexOf for a one-character needle, 1-based
lastIndexOf(s, c) ==
  IF c \in Range(s) THEN CHOOSE i \in 1..Len(s) :
                           s[i] = c /\ \A j \in (i + 1)..Len(s) : s[j] # c
  ELSE 0

\* First position of any character of the set cs, or Len(s) + 1
FirstOf(s, cs) ==
  IF \E i \in 1..Len(s) : s[i] \in cs
  THEN CHOOSE i \in 1..Len(s) : s[i] \in cs /\ \A j \in 1..(i - 1) : s[j] \notin cs
  ELSE Len(s) + 1

From(s, i) == SubSeq(s, i, Len(s))
Upto(s, i) == SubSeq(s, 1, i)

AllDigits(s) == \A i \in 1..Len(s) : IsDigit(s[i])

RECURSIVE SplitOn(_, _)
\* String.prototype.split on a one-character separator
SplitOn(s, c) ==
  IF ~includes(s, c) THEN <<s>>
  ELSE <<Upto(s, indexOf(s, c) - 1)>> \o SplitOn(From(s, indexOf(s, c) + 1), c)

RECURSIVE JoinWith(_, _)
\* Array.prototype.join
JoinWith(parts, sep) ==
  IF Len(parts) = 0 THEN <<>>
  ELSE IF Len(parts) = 1 THEN parts[1]
  ELSE parts[1] \o sep \o JoinWith(Tail(parts), sep)

RECURSIVE ParseDec(_)
\* Value of a string of decimal digits
ParseDec(s) ==
  IF Len(s) = 0 THEN 0
  ELSE 10 * ParseDec(Upto(s, Len(s) - 1)) + DigitVal(s[Len(s)])

RECURSIVE FormatDec(_)
\* Decimal digits of a natural number
FormatDec(n) ==
  IF n < 10 THEN <<DigitChars[n + 1]>>
  ELSE FormatDec(n \div 10) \o <<DigitChars[(n % 10) + 1]>>

\* /^(\d{1,3}\.){3}\d{1,3}$/ ; server.js line 65 writes the same language as
\* /^\d{1,3}(\.\d{1,3}){3}$/
ipv4Test(s) ==
  LET parts == SplitOn(s, ".")
  IN Len(parts) = 4 /\
     \A i \in 1..4 : Len(parts[i]) \in 1..3 /\ AllDigits(parts[i])

(***************************************************************************)
(* new URL(target) of part_000: the WHATWG URL parser built into Node.     *)
(* Modelled: scheme, special-scheme slashes, userinfo, host and port,      *)
(* default-port elision, host lower-casing, the IPv4 host parser (decimal  *)
(* parts, 1 to 4 of them), bracketed IPv6 hosts, path, query, fragment,    *)
(* origin.  Not modelled: percent-decoding, IDNA, dot-segment removal,     *)
(* octal and hexadecimal IPv4 parts, IPv6 compression; the inputs drawn    *)
(* below use none of them.                                                 *)
(***************************************************************************)
WhatwgSpecial == {<<"h", "t", "t", "p">>, <<"h", "t", "t", "p", "s">>, <<"w", "s">>, <<"w", "s", "s">>, <<"f", "t", "p">>}

WhatwgDefaultPort(scheme) ==
  IF scheme \in {<<"h", "t", "t", "p">>, <<"w", "s">>} THEN 80
  ELSE IF scheme \in {<<"h", "t", "t", "p", "s">>, <<"w", "s", "s">>} THEN 443
  ELSE IF scheme = <<"f", "t", "p">> THEN 21
  ELSE -1

WhatwgFailure ==
  [ok |-> FALSE, protocol |-> <<>>, hostname |-> <<>>, port |-> <<>>,
   pathname |-> <<>>, search |-> <<>>, origin |-> <<>>]

\* A scheme: a letter, then letters, digits, "+", "-", "."
IsScheme(s) ==
  /\ Len(s) > 0
  /\ IsAlpha(s[1])
  /\ \A j \in 2..Len(s) :
        IsAlpha(s[j]) \/ IsDigit(s[j]) \/ s[j] \in {"+", "-", "."}

\* The scheme of an absolute URL string: [ok, scheme, rest]
WhatwgScheme(input) ==
  IF includes(input, ":") /\ IsScheme(Upto(input, indexOf(input, ":") - 1))
  THEN [ok |-> TRUE, scheme |-> toLowerCase(Upto(input, indexOf(input, ":") - 1)),
        rest |-> From(input, indexOf(input, ":") + 1)]
  ELSE [ok |-> FALSE, scheme |-> <<>>, rest |-> input]

RECURSIVE StripSlashes(_)
StripSlashes(s) ==
  IF Len(s) > 0 /\ s[1] = "/" THEN StripSlashes(Tail(s)) ELSE s

\* 256^k for the k the IPv4 parser needs within 32-bit integers
Pow256(k) == IF k = 0 THEN 1 ELSE IF k = 1 THEN 256
             ELSE IF k = 2 THEN 65536 ELSE 16777216

\* The labels of a domain, a trailing empty label dropped
HostParts(domain) ==
  IF Len(domain) > 0 /\ domain[Len(domain)] = "."
  THEN SplitOn(Upto(domain, Len(domain) - 1), ".")
  ELSE SplitOn(domain, ".")

LastPart(parts) == parts[Len(parts)]

\* The host parser's "ends in a number" test, decimal numbers only
EndsInNumber(domain) ==
  Len(LastPart(HostParts(domain))) > 0 /\ AllDigits(LastPart(HostParts(domain)))

\* Byte k of the address: the first n - 1 numbers are one byte each, the last
\* number fills the remaining 5 - n bytes
Ipv4Byte(nums, k) ==
  IF k < Len(nums) THEN nums[k]
  ELSE (nums[Len(nums)] \div Pow256(4 - k)) % 256

Ipv4Serialize(nums) ==
  IF (\E i \in 1..(Len(nums) - 1) : nums[i] > 255)
       \/ (Len(nums) > 1 /\ nums[Len(nums)] >= Pow256(5 - Len(nums)))
  THEN [ok |-> FALSE, hostname |-> <<>>]
  ELSE [ok |-> TRUE,
        hostname |-> FormatDec(Ipv4Byte(nums, 1)) \o <<".">> \o
                     FormatDec(Ipv4Byte(nums, 2)) \o <<".">> \o
                     FormatDec(Ipv4Byte(nums, 3)) \o <<".">> \o
                     FormatDec(Ipv4Byte(nums, 4))]

\* The IPv4 parser on the labels: [ok, hostname] with hostname the dotted
\* quad.  A number of more than 9 digits is refused (it would not fit the
\* model's integers; the parser refuses it from 2^32 on).
Ipv4Parts(parts) ==
  IF Len(parts) > 4 \/ \E i \in 1..Len(parts) :
       Len(parts[i]) = 0 \/ ~AllDigits(parts[i]) \/ Len(parts[i]) > 9
  THEN [ok |-> FALSE, hostname |-> <<>>]
  ELSE Ipv4Serialize([i \in 1..Len(parts) |-> ParseDec(parts[i])])

WhatwgIpv4(domain) == Ipv4Parts(HostParts(domain))

ForbiddenHostChars == {" ", "#", "/", ":", "<", ">", "?", "@", "[", "\\", "]", "^", "|", "%"}

\* A bracketed IPv6 literal: hexadecimal digits and colons between [ and ]
WhatwgIpv6(hostRaw) ==
  IF hostRaw[Len(hostRaw)] = "]" /\ Len(hostRaw) > 2 /\
     \A i \in 2..(Len(hostRaw) - 1) :
        IsDigit(hostRaw[i]) \/ LowerChar(hostRaw[i]) \in Range(HexLetters)
          \/ hostRaw[i] = ":"
  THEN [ok |-> TRUE, hostname |-> toLowerCase(hostRaw)]
  ELSE [ok |-> FALSE, hostname |-> <<>>]

\* A lower-cased domain: refused, an IPv4 address, or kept
WhatwgDomain(domain) ==
  IF \E i \in 1..Len(domain) : domain[i] \in ForbiddenHostChars
  THEN [ok |-> FALSE, hostname |-> <<>>]
  ELSE IF EndsInNumber(domain) THEN WhatwgIpv4(domain)
  ELSE [ok |-> TRUE, hostname |-> domain]

\* The host parser for a special scheme: [ok, hostname]
WhatwgHost(hostRaw) ==
  IF Len(hostRaw) = 0 THEN [ok |-> FALSE, hostname |-> <<>>]
  ELSE IF hostRaw[1] = "[" THEN WhatwgIpv6(hostRaw)
  ELSE WhatwgDomain(toLowerCase(hostRaw))

\* Where the host ends in "host[:port]": at the ], or before the first colon
HostEnd(hostport) ==
  IF Len(hostport) > 0 /\ hostport[1] = "[" THEN indexOf(hostport, "]")
  ELSE IF includes(hostport, ":") THEN indexOf(hostport, ":") - 1
  ELSE Len(hostport)

\* [ok, host, port] given the host and what follows it
WhatwgPort(host, after) ==
  IF Len(after) = 0 THEN [ok |-> TRUE, host |-> host, port |-> <<>>]
  ELSE IF after[1] = ":" /\ AllDigits(Tail(after)) /\ Len(after) <= 6
  THEN [ok |-> TRUE, host |-> host, port |-> Tail(after)]
  ELSE [ok |-> FALSE, host |-> <<>>, port |-> <<>>]

\* host and port of "host[:port]": [ok, host, port]
WhatwgHostPort(hostport) ==
  IF Len(hostport) > 0 /\ hostport[1] = "[" /\ ~includes(hostport, "]")
  THEN [ok |-> FALSE, host |-> <<>>, port |-> <<>>]
  ELSE WhatwgPort(Upto(hostport, HostEnd(hostport)),
                  From(hostport, HostEnd(hostport) + 1))

\* The query of what follows the path: "?..." up to a fragment
WhatwgSearch(afterPath) ==
  IF Len(afterPath) > 1 /\ afterPath[1] = "?"
       /\ Upto(afterPath, FirstOf(afterPath, {"#"}) - 1) # <<"?">>
  THEN Upto(afterPath, FirstOf(afterPath, {"#"}) - 1)
  ELSE <<>>

\* pathname and search of what follows the authority
WhatwgPath(tail, special) ==
  [pathname |-> IF special /\ FirstOf(tail, {"?", "#"}) = 1 THEN <<"/">>
                ELSE Upto(tail, FirstOf(tail, {"?", "#"}) - 1),
   search |-> WhatwgSearch(From(tail, FirstOf(tail, {"?", "#"})))]

\* The port as serialized: none when it is the scheme's default
WhatwgPortOf(scheme, port) ==
  IF Len(port) = 0 \/ ParseDec(port) = WhatwgDefaultPort(scheme) THEN <<>>
  ELSE FormatDec(ParseDec(port))

\* The URL record from its parsed pieces
WhatwgAssemble(scheme, special, hp, host, pq) ==
  IF ~hp.ok \/ ~host.ok \/ ParseDec(hp.port) > 65535 THEN WhatwgFailure
  ELSE [ok |-> TRUE,
        protocol |-> scheme \o <<":">>,
        hostname |-> host.hostname,
        port |-> WhatwgPortOf(scheme, hp.port),
        pathname |-> pq.pathname,
        search |-> pq.search,
        origin |-> IF ~special THEN <<"n", "u", "l", "l">>
                   ELSE IF Len(WhatwgPortOf(scheme, hp.port)) = 0
                   THEN scheme \o <<":", "/", "/">> \o host.hostname
                   ELSE scheme \o <<":", "/", "/">> \o host.hostname \o <<":">> \o
                          WhatwgPortOf(scheme, hp.port)]

\* The host of "host[:port]", parsed as the scheme requires
WhatwgHostOf(special, hp) ==
  IF special THEN WhatwgHost(hp.host) ELSE [ok |-> TRUE, hostname |-> hp.host]

WhatwgWithHostPort(scheme, special, hp, tail) ==
  WhatwgAssemble(scheme, special, hp, WhatwgHostOf(special, hp),
                 WhatwgPath(tail, special))

\* The authority "userinfo@host:port" and what follows it
WhatwgAuthority(scheme, special, s) ==
  WhatwgWithHostPort(
    scheme, special,
    WhatwgHostPort(From(Upto(s, FirstOf(s, {"/", "?", "#"}) - 1),
                        lastIndexOf(Upto(s, FirstOf(s, {"/", "?", "#"}) - 1), "@") + 1)),
    From(s, FirstOf(s, {"/", "?", "#"})))

\* A URL without authority (mailto:...): an opaque path, no host
WhatwgOpaque(scheme, s) ==
  [ok |-> TRUE, protocol |-> scheme \o <<":">>, hostname |-> <<>>, port |-> <<>>,
   pathname |-> WhatwgPath(s, FALSE).pathname, search |-> WhatwgPath(s, FALSE).search,
   origin |-> <<"n", "u", "l", "l">>]

WhatwgAfterScheme(sch) ==
  IF ~sch.ok THEN WhatwgFailure
  ELSE IF sch.scheme \notin WhatwgSpecial /\ ~startsWith(sch.rest, <<"/", "/">>)
  THEN WhatwgOpaque(sch.scheme, sch.rest)
  ELSE WhatwgAuthority(sch.scheme, sch.scheme \in WhatwgSpecial,
                       IF sch.scheme \in WhatwgSpecial THEN StripSlashes(sch.rest)
                       ELSE From(sch.rest, 3))

\* new URL(input): ok = FALSE is the TypeError "Invalid URL"
WhatwgURL(input) == WhatwgAfterScheme(WhatwgScheme(input))

(***************************************************************************)
(* new URL(urlStr) of server.js: the url-parse package (import, line 9).   *)
(* It never throws on a string.  Modelled: protocol extraction, the        *)
(* slashes flag, and the instruction list hash, query, pathname, auth,     *)
(* host, port, hostname, then default-port removal.  Not modelled:         *)
(* whitespace trimming, backslash handling, resolution against a base      *)
(* location (Node has none); the inputs drawn below use none of them.      *)
(***************************************************************************)
UrlParseSpecial == {<<"f", "i", "l", "e", ":">>, <<"f", "t", "p", ":">>, <<"g", "o", "p", "h", "e", "r", ":">>, <<"h", "t", "t", "p", ":">>, <<"h", "t", "t", "p", "s", ":">>,
                    <<"w", "s", ":">>, <<"w", "s", "s", ":">>}

\* required(port, protocol): whether the port is kept in host
UrlParseRequired(port, protocol) ==
  LET n == ParseDec(port)
  IN IF Len(port) = 0 \/ n = 0 THEN FALSE
     ELSE IF protocol \in {<<"h", "t", "t", "p", ":">>, <<"w", "s", ":">>} THEN n # 80
     ELSE IF protocol \in {<<"h", "t", "t", "p", "s", ":">>, <<"w", "s", "s", ":">>} THEN n # 443
     ELSE IF protocol = <<"f", "t", "p", ":">> THEN n # 21
     ELSE IF protocol = <<"g", "o", "p", "h", "e", "r", ":">> THEN n # 70
     ELSE IF protocol = <<"f", "i", "l", "e", ":">> THEN FALSE
     ELSE TRUE

\* extractProtocol(address): [protocol, slashes, slashesCount, rest], given
\* the protocol the regular expression matched and what follows it
UrlParseRest(protocol, afterProto) ==
  [protocol |-> protocol,
   slashes |-> startsWith(afterProto, <<"/", "/">>) \/ protocol \in UrlParseSpecial,
   slashesCount |-> Len(afterProto) - Len(StripSlashes(afterProto)),
   rest |-> IF protocol = <<"f", "i", "l", "e", ":">>
            THEN (IF startsWith(afterProto, <<"/", "/">>) THEN From(afterProto, 3)
                  ELSE afterProto)
            ELSE IF protocol \in UrlParseSpecial THEN StripSlashes(afterProto)
            ELSE IF Len(protocol) > 0 /\ startsWith(afterProto, <<"/", "/">>)
            THEN From(afterProto, 3)
            ELSE afterProto]

UrlParseProtocol(sch, address) ==
  IF sch.ok THEN UrlParseRest(sch.scheme \o <<":">>, sch.rest)
  ELSE UrlParseRest(<<>>, address)

UrlParseExtract(address) == UrlParseProtocol(WhatwgScheme(address), address)

\* One instruction [c, key]: the address is cut at the first c; what follows
\* (c included) is the key's value
CutFrom(address, c) ==
  IF includes(address, c)
  THEN [keep |-> Upto(address, indexOf(address, c) - 1),
        cut |-> From(address, indexOf(address, c))]
  ELSE [keep |-> address, cut |-> <<>>]

\* The instruction [/:(\d*)$/, 'port'] and [NaN, 'hostname'], then the
\* removal of a default port from host
UrlParseHostname(ex, hash, query, path, auth, address) ==
  LET portAt == lastIndexOf(address, ":")
      hasPort == portAt > 0 /\ AllDigits(From(address, portAt + 1))
      port == IF hasPort THEN From(address, portAt + 1) ELSE <<>>
      hostname == toLowerCase(IF hasPort THEN Upto(address, portAt - 1) ELSE address)
  IN [protocol |-> ex.protocol,
      slashes |-> ex.slashes,
      auth |-> auth,
      host |-> IF UrlParseRequired(port, ex.protocol) THEN toLowerCase(address)
               ELSE hostname,
      port |-> IF UrlParseRequired(port, ex.protocol) THEN port ELSE <<>>,
      hostname |-> hostname,
      pathname |-> IF (Len(path) = 0 \/ path[1] # "/") /\ ex.protocol \in UrlParseSpecial
                   THEN <<"/">> \o path ELSE path,
      query |-> query,
      hash |-> hash]

\* The instruction ['@', 'auth', 1]: what precedes the last @
UrlParseAuth(ex, hash, query, path, address) ==
  IF includes(address, "@")
  THEN UrlParseHostname(ex, hash, query, path,
                        Upto(address, lastIndexOf(address, "@") - 1),
                        From(address, lastIndexOf(address, "@") + 1))
  ELSE UrlParseHostname(ex, hash, query, path, <<>>, address)

\* The instruction ['/', 'pathname'], or [/(.*)/, 'pathname'] when the
\* address has no authority
UrlParsePathname(ex, hash, query, address) ==
  IF ~ex.slashes THEN UrlParseAuth(ex, hash, query, address, <<>>)
  ELSE UrlParseAuth(ex, hash, query, CutFrom(address, "/").cut,
                    CutFrom(address, "/").keep)

\* The instruction ['?', 'query']
UrlParseQuery(ex, hash, address) ==
  UrlParsePathname(ex, hash, CutFrom(address, "?").cut, CutFrom(address, "?").keep)

\* The instruction ['#', 'hash']
UrlParseHash(ex) ==
  UrlParseQuery(ex, CutFrom(ex.rest, "#").cut, CutFrom(ex.rest, "#").keep)

\* new URL(address) without a base location
UrlParse(address) == UrlParseHash(UrlParseExtract(address))

(***************************************************************************)
(* State.                                                                  *)
(***************************************************************************)
VARIABLES
  impl,       \* which program runs: "part_000" or "server_js"
  ALLOWLIST,  \* the parsed PROXY_ALLOWLIST, fixed at startup
  pc,         \* where the current exchange stands
  req,        \* the inbound request: kind, method, hasQuery, url (req.query.url)
  res,        \* the response to the client: statusCode, headersSent, json, headers
  validated,  \* "none", "accept" or "reject": the outcome of validation so far
  verdict,    \* what the /proxy gate's validation returned
  routed,     \* what options.router returned: the forwarder's target
  outPath,    \* what options.pathRewrite returned: the outbound path and query
  contacted,  \* the URLs the forwarder opened a connection to in this exchange
  hops,       \* redirects followed in this exchange
  handled     \* what the last onError call did

vars == <<impl, ALLOWLIST, pc, req, res, validated, verdict, routed, outPath,
          contacted, hops, handled>>

(***************************************************************************)
(* Target validation of part_000.                                          *)
(***************************************************************************)
isPrivateOrIpLiteral(hostname) ==
  IF Len(hostname) = 0 THEN TRUE
  ELSE IF ipv4Test(hostname) THEN TRUE
  ELSE IF includes(hostname, ":") THEN TRUE
  ELSE LET lower == toLowerCase(hostname)
       IN lower = <<"l", "o", "c", "a", "l", "h", "o", "s", "t">> \/ endsWith(lower, <<".", "l", "o", "c", "a", "l", "h", "o", "s", "t">>)

\* A suffix match that forgets the separating dot: it would let
\* evil-example.com pass for the entry example.com
allowlistedBySuffix(hostname) ==
  \E domain \in ALLOWLIST :
     hostname = domain \/ endsWith(hostname, domain)

\* ALLOWLIST.some((domain) => hostname === domain || hostname.endsWith(`.${domain}`))
allowlisted(hostname) ==
  \E domain \in ALLOWLIST :
     hostname = domain \/ endsWith(hostname, <<".">> \o domain)

\* The checks of parseAndValidateTarget on the parsed URL, in their order
validateParsed(target, parsed) ==
  IF Len(target) = 0
  THEN [ok |-> FALSE, reason |-> <<"M", "i", "s", "s", "i", "n", "g", " ", "'", "u", "r", "l", "'", " ", "q", "u", "e", "r", "y", " ", "p", "a", "r", "a", "m", "e", "t", "e", "r">>, target |-> parsed]
  ELSE IF ~parsed.ok
  THEN [ok |-> FALSE, reason |-> <<"I", "n", "v", "a", "l", "i", "d", " ", "U", "R", "L">>, target |-> parsed]
  ELSE IF toLowerCase(parsed.protocol) \notin {<<"h", "t", "t", "p", ":">>, <<"h", "t", "t", "p", "s", ":">>, <<"w", "s", ":">>, <<"w", "s", "s", ":">>}
  THEN [ok |-> FALSE, reason |-> <<"O", "n", "l", "y", " ", "H", "T", "T", "P", ",", " ", "H", "T", "T", "P", "S", ",", " ", "W", "S", ",", " ", "a", "n", "d", " ", "W", "S", "S", " ", "a", "r", "e", " ", "a", "l", "l", "o", "w", "e", "d">>,
        target |-> parsed]
  ELSE IF isPrivateOrIpLiteral(toLowerCase(parsed.hostname))
  THEN [ok |-> FALSE, reason |-> <<"P", "r", "i", "v", "a", "t", "e", " ", "h", "o", "s", "t", "s", " ", "a", "n", "d", " ", "I", "P", " ", "l", "i", "t", "e", "r", "a", "l", "s", " ", "a", "r", "e", " ", "b", "l", "o", "c", "k", "e", "d">>,
        target |-> parsed]
  ELSE IF ~allowlisted(toLowerCase(parsed.hostname))
  THEN [ok |-> FALSE, reason |-> <<"D", "o", "m", "a", "i", "n", " ", "i", "s", " ", "n", "o", "t", " ", "i", "n", " ", "P", "R", "O", "X", "Y", "_", "A", "L", "L", "O", "W", "L", "I", "S", "T">>, target |-> parsed]
  ELSE [ok |-> TRUE, reason |-> <<>>, target |-> parsed]

parseAndValidateTarget(target) == validateParsed(target, WhatwgURL(target))

(***************************************************************************)
(* Target validation of server.js.                                         *)
(***************************************************************************)
\* PRIVATE_NET_RANGES.some(rx => rx.test(h))
PRIVATE_NET_RANGES(h) ==
  \/ startsWith(h, <<"1", "0", ".">>)
  \/ startsWith(h, <<"1", "2", "7", ".">>)
  \/ startsWith(h, <<"1", "6", "9", ".", "2", "5", "4", ".">>)
  \/ /\ startsWith(h, <<"1", "7", "2", ".">>)
     /\ Len(h) >= 7
     /\ AllDigits(SubSeq(h, 5, 6))
     /\ ParseDec(SubSeq(h, 5, 6)) \in 16..31
     /\ h[7] = "."
  \/ startsWith(h, <<"1", "9", "2", ".", "1", "6", "8", ".">>)
  \/ h = <<":", ":", "1">>
  \/ startsWith(h, <<"f", "c", "0", "0", ":">>)
  \/ startsWith(h, <<"f", "e", "8", "0", ":">>)

\* /^[a-f0-9:]+$/i
hexOrColon(h) ==
  Len(h) > 0 /\ \A i \in 1..Len(h) :
                   LowerChar(h[i]) \in Range(HexLetters) \/ IsDigit(h[i]) \/ h[i] = ":"

isPrivateHost(host) ==
  IF Len(host) = 0 THEN TRUE
  ELSE IF ipv4Test(toLowerCase(host)) THEN PRIVATE_NET_RANGES(toLowerCase(host))
  ELSE IF hexOrColon(toLowerCase(host)) THEN TRUE
  ELSE FALSE

\* ALLOWLIST.some(allowed => hostname === allowed || hostname.endsWith(`.${allowed}`))
allowedHost(hostname) ==
  \E allowed \in ALLOWLIST :
     hostname = allowed \/ endsWith(hostname, <<".">> \o allowed)

\* The checks of allowedTarget on the parsed URL, in their order
checkParsed(parsed) ==
  IF Len(toLowerCase(parsed.host)) = 0
  THEN [ok |-> FALSE, reason |-> <<"N", "o", " ", "h", "o", "s", "t">>, target |-> parsed]
  ELSE IF isPrivateHost(toLowerCase(parsed.host))
  THEN [ok |-> FALSE, reason |-> <<"P", "r", "i", "v", "a", "t", "e", "/", "i", "n", "v", "a", "l", "i", "d", " ", "h", "o", "s", "t">>, target |-> parsed]
  ELSE IF allowedHost(SplitOn(toLowerCase(parsed.host), ":")[1])
  THEN [ok |-> TRUE, reason |-> <<>>, target |-> parsed]
  ELSE [ok |-> FALSE, reason |-> <<"H", "o", "s", "t", " ", "n", "o", "t", " ", "i", "n", " ", "a", "l", "l", "o", "w", "l", "i", "s", "t">>, target |-> parsed]

\* The catch branch ("Bad URL") is not modelled: url-parse does not throw on
\* a string, and String(urlParam) is always a string.
allowedTarget(urlStr) == checkParsed(UrlParse(urlStr))

(***************************************************************************)
(* Requests.  req.query.url is absent, one string, or (a repeated          *)
(* parameter) an array of strings.                                         *)
(***************************************************************************)
Schemes == {<<"h", "t", "t", "p">>, <<"H", "T", "T", "P", "S">>, <<"w", "s", "s">>, <<"f", "t", "p">>}

Hosts == {<<"e", "x", ".", "c", "o", "m">>, <<"A", "P", "I", ".", "e", "x", ".", "c", "o", "m">>, <<"e", "v", "i", "l", "-", "e", "x", ".", "c", "o", "m", ".", "c", "o", "m">>, <<"e", "v", "i", "l", "-", "e", "x", ".", "c", "o", "m">>,
          <<"e", "v", "i", "l", "-", "c", "o", "m", ".", "c", "o", "m">>, <<"8", ".", "8", ".", "8", ".", "8">>, <<"1", "2", "7", ".", "0", ".", "0", ".", "1">>, <<"1", "2", "7", ".", "1">>, <<"9", "9", "9", ".", "1", ".", "1", ".", "1">>,
          <<"[", ":", ":", "1", "]">>, <<"l", "o", "c", "a", "l", "h", "o", "s", "t">>, <<"a", ".", "l", "o", "c", "a", "l", "h", "o", "s", "t">>, <<"c", "a", "f", "e">>}

Ports == {<<>>, <<":", "8", "0", "8", "0">>}

PathQueries == {<<>>, <<"/", "f", "o", "o", "?", "x", "=", "1">>}

RawTargets ==
  {s \o <<":", "/", "/">> \o h \o p \o pq :
     s \in Schemes, h \in Hosts, p \in Ports, pq \in PathQueries}
  \cup {<<>>, <<"e", "x", ".", "c", "o", "m", "/", "f", "o", "o">>}

RepeatedRaws == {<<"h", "t", "t", "p", "s", ":", "/", "/", "e", "x", ".", "c", "o", "m", "/", "a">>, <<"h", "t", "t", "p", ":", "/", "/", "8", ".", "8", ".", "8", ".", "8", "/">>}

RECURSIVE SeqsOf(_, _)
\* The sequences of exactly n elements of S
SeqsOf(S, n) ==
  IF n = 0 THEN {<<>>}
  ELSE {<<x>> \o t : x \in S, t \in SeqsOf(S, n - 1)}

UrlParams ==
  {[kind |-> "absent", vals |-> <<>>]}
  \cup {[kind |-> "string", vals |-> <<r>>] : r \in RawTargets}
  \cup {[kind |-> "array", vals |-> a] :
          a \in UNION {SeqsOf(RepeatedRaws, n) : n \in 2..MaxParams}}

Methods == {"GET", "TRACE"}

Requests ==
  {[kind |-> "http", method |-> m, hasQuery |-> TRUE, url |-> u] :
     m \in Methods, u \in UrlParams}
  \cup {[kind |-> "upgrade", method |-> "GET", hasQuery |-> q, url |-> u] :
          q \in BOOLEAN, u \in UrlParams}

\* JavaScript truthiness of req.query.url
Truthy(u) == u.kind = "array" \/ (u.kind = "string" /\ Len(u.vals[1]) > 0)

\* String(value)
JsString(u) ==
  IF u.kind = "absent" THEN <<"u", "n", "d", "e", "f", "i", "n", "e", "d">>
  ELSE IF u.kind = "string" THEN u.vals[1]
  ELSE JoinWith(u.vals, <<",">>)

\* String(req.query.url || "")
UrlOrEmpty(u) == IF Truthy(u) THEN JsString(u) ELSE <<>>

AllowEntries == {<<"e", "x", ".", "c", "o", "m">>, <<"c", "o", "m">>, <<"c", "a", "f", "e">>, <<"8", ".", "8", ".", "8", ".", "8">>}

\* PROXY_ALLOWLIST after split, trim, toLowerCase, filter: never empty
Allowlists ==
  {A \in SUBSET AllowEntries : Cardinality(A) \in 1..MaxAllowlist}

\* process.env.DEFAULT_TARGET || "https://example.com"
DEFAULT_TARGET == <<"h", "t", "t", "p", "s", ":", "/", "/", "e", "x", "a", "m", "p", "l", "e", ".", "c", "o", "m">>

\* The path of the inbound request, which is the proxy endpoint itself
InboundPath == <<"/", "p", "r", "o", "x", "y">>

NoBody == [error |-> <<>>, reason |-> <<>>, detail |-> <<>>]

FreshRes == [statusCode |-> 0, headersSent |-> FALSE, json |-> NoBody, headers |-> {}]

NoVerdict == [ok |-> FALSE, reason |-> <<>>, target |-> WhatwgFailure]

NotHandled == [called |-> FALSE, marker |-> FALSE, headersSentBefore |-> FALSE,
               setStatus |-> 0, wroteBody |-> FALSE]

\* res.status(code).json(body): the status code is assigned, then the body is
\* written, which sends the headers; once the headers are sent the write fails
StatusJson(response, code, body) ==
  [response EXCEPT !.statusCode = code,
                   !.json = IF response.headersSent THEN @ ELSE body,
                   !.headersSent = TRUE]

Init ==
  /\ impl \in {"part_000", "server_js"}
  /\ ALLOWLIST \in Allowlists
  /\ pc = "idle"
  /\ req = [kind |-> "http", method |-> "GET", hasQuery |-> TRUE,
            url |-> [kind |-> "absent", vals |-> <<>>]]
  /\ res = FreshRes
  /\ validated = "none"
  /\ verdict = NoVerdict
  /\ routed = <<>>
  /\ outPath = <<>>
  /\ contacted = {}
  /\ hops = 0
  /\ handled = NotHandled

\* A request arrives on /proxy; an upgrade request goes to the proxy's own
\* upgrade listener (ws: true), not through the Express middleware chain
Receive ==
  /\ pc = "idle"
  /\ \E r \in Requests :
       /\ req' = r
       /\ pc' = IF r.kind = "http" THEN "gate" ELSE "router"
  /\ UNCHANGED <<impl, ALLOWLIST, res, validated, verdict, routed, outPath,
                 contacted, hops, handled>>

\* The exchange is over and its per-request state is discarded
Close ==
  /\ pc = "done"
  /\ pc' = "idle"
  /\ req' = [kind |-> "http", method |-> "GET", hasQuery |-> TRUE,
             url |-> [kind |-> "absent", vals |-> <<>>]]
  /\ res' = FreshRes
  /\ validated' = "none"
  /\ verdict' = NoVerdict
  /\ routed' = <<>>
  /\ outPath' = <<>>
  /\ contacted' = {}
  /\ hops' = 0
  /\ handled' = NotHandled
  /\ UNCHANGED <<impl, ALLOWLIST>>

(***************************************************************************)
(* The /proxy gate: app.use("/proxy", (req, res, next) => ...).            *)
(***************************************************************************)
\* What the gate of part_000 does with its validation
GateOn_part000(validation) ==
  /\ verdict' = validation
  /\ IF ~validation.ok
     THEN /\ res' = StatusJson(res, 400, [NoBody EXCEPT !.error = validation.reason])
          /\ validated' = "reject"
          /\ pc' = "done"
     ELSE /\ res' = res
          /\ validated' = "accept"
          /\ pc' = "router"

Gate_part000 ==
  /\ impl = "part_000"
  /\ pc = "gate"
  /\ GateOn_part000(parseAndValidateTarget(UrlOrEmpty(req.url)))
  /\ UNCHANGED <<impl, ALLOWLIST, req, routed, outPath, contacted, hops, handled>>

allowedMethods == {"GET", "POST", "PUT", "PATCH", "DELETE", "HEAD", "OPTIONS"}

\* What the gate of server.js does with its check of a present url
GateOn_server(check) ==
  IF req.method \notin allowedMethods
  THEN /\ res' = [res EXCEPT !.statusCode = 405, !.headersSent = TRUE]
       /\ UNCHANGED <<verdict, validated>>
       /\ pc' = "done"
  ELSE IF Truthy(req.url) /\ ~check.ok
  THEN /\ res' = StatusJson(res, 400, [NoBody EXCEPT !.error = <<"T", "a", "r", "g", "e", "t", " ", "r", "e", "j", "e", "c", "t", "e", "d">>,
                                                    !.reason = check.reason])
       /\ verdict' = check
       /\ validated' = "reject"
       /\ pc' = "done"
  ELSE /\ res' = res
       /\ verdict' = IF Truthy(req.url) THEN check ELSE verdict
       /\ validated' = IF Truthy(req.url) THEN "accept" ELSE validated
       /\ pc' = "router"

Gate_server ==
  /\ impl = "server_js"
  /\ pc = "gate"
  /\ GateOn_server(allowedTarget(JsString(req.url)))
  /\ UNCHANGED <<impl, ALLOWLIST, req, routed, outPath, contacted, hops, handled>>

(***************************************************************************)
(* The proxy options: router, pathRewrite, onProxyRes, onError.            *)
(* router gives [threw, message, ok, value]; reading req.query.url when    *)
(* req.query is undefined throws a TypeError.                              *)
(***************************************************************************)
TypeErrorMessage == <<"C", "a", "n", "n", "o", "t", " ", "r", "e", "a", "d", " ", "p", "r", "o", "p", "e", "r", "t", "i", "e", "s", " ", "o", "f", " ", "u", "n", "d", "e", "f", "i", "n", "e", "d">>

routerOn_part000(r, validation) ==
  IF ~r.hasQuery
  THEN [threw |-> TRUE, message |-> TypeErrorMessage, ok |-> FALSE, value |-> <<>>]
  ELSE IF ~validation.ok
  THEN [threw |-> TRUE, message |-> <<"R", "E", "J", "E", "C", "T", "E", "D", "_", "T", "A", "R", "G", "E", "T", ":">> \o validation.reason,
        ok |-> FALSE, value |-> <<>>]
  ELSE [threw |-> FALSE, message |-> <<>>, ok |-> TRUE,
        value |-> validation.target.origin]

router_part000(r) == routerOn_part000(r, parseAndValidateTarget(UrlOrEmpty(r.url)))

routerOn_server(r, check) ==
  IF ~r.hasQuery
  THEN [threw |-> TRUE, message |-> TypeErrorMessage, ok |-> FALSE, value |-> <<>>]
  ELSE IF ~Truthy(r.url)
  THEN [threw |-> FALSE, message |-> <<>>, ok |-> FALSE, value |-> DEFAULT_TARGET]
  ELSE IF ~check.ok
  THEN [threw |-> TRUE, message |-> <<"R", "E", "J", "E", "C", "T", ":">> \o check.reason,
        ok |-> FALSE, value |-> <<>>]
  ELSE [threw |-> FALSE, message |-> <<>>, ok |-> TRUE, value |-> JsString(r.url)]

router_server(r) == routerOn_server(r, allowedTarget(JsString(r.url)))

pathRewriteOn_part000(validation) ==
  IF ~validation.ok THEN <<"/">>
  ELSE validation.target.pathname \o validation.target.search

pathRewrite_part000(path, r) ==
  pathRewriteOn_part000(parseAndValidateTarget(UrlOrEmpty(r.url)))

pathRewriteOn_server(path, r, u) ==
  IF ~Truthy(r.url) THEN path
  ELSE u.pathname \o u.query

pathRewrite_server(path, r) == pathRewriteOn_server(path, r, UrlParse(JsString(r.url)))

\* part_000 sets no onProxyRes: the upstream's headers are relayed as they are
onProxyRes_part000(headers) == headers

\* ["server", "x-powered-by"].forEach(h => delete proxyRes.headers[h])
onProxyRes_server(headers) == headers \ {"server", "x-powered-by"}

\* What one onError call did: the marker branch, the 502 branch, or nothing
Handled(marker, headersSentBefore, code) ==
  [called |-> TRUE, marker |-> marker, headersSentBefore |-> headersSentBefore,
   setStatus |-> code, wroteBody |-> code # 0]

\* onError: [res, handled] after the call
onError_part000(message, response) ==
  IF startsWith(message, <<"R", "E", "J", "E", "C", "T", "E", "D", "_", "T", "A", "R", "G", "E", "T", ":">>)
  THEN [res |-> StatusJson(response, 400,
                  [NoBody EXCEPT !.error = From(message, Len(<<"R", "E", "J", "E", "C", "T", "E", "D", "_", "T", "A", "R", "G", "E", "T", ":">>) + 1)]),
        handled |-> Handled(TRUE, response.headersSent, 400)]
  ELSE IF ~response.headersSent
  THEN [res |-> StatusJson(response, 502,
                  [NoBody EXCEPT !.error = <<"P", "r", "o", "x", "y", " ", "r", "e", "q", "u", "e", "s", "t", " ", "f", "a", "i", "l", "e", "d">>, !.detail = message]),
        handled |-> Handled(FALSE, FALSE, 502)]
  ELSE [res |-> response, handled |-> Handled(FALSE, TRUE, 0)]

onError_server(message, response) ==
  IF startsWith(message, <<"R", "E", "J", "E", "C", "T", ":">>)
  THEN [res |-> StatusJson(response, 400,
                  [NoBody EXCEPT !.error = <<"T", "a", "r", "g", "e", "t", " ", "r", "e", "j", "e", "c", "t", "e", "d">>,
                                 !.reason = From(message, Len(<<"R", "E", "J", "E", "C", "T", ":">>) + 1)]),
        handled |-> Handled(TRUE, response.headersSent, 400)]
  ELSE IF ~response.headersSent
  THEN [res |-> StatusJson(response, 502,
                  [NoBody EXCEPT !.error = <<"B", "a", "d", " ", "g", "a", "t", "e", "w", "a", "y">>, !.detail = message]),
        handled |-> Handled(FALSE, FALSE, 502)]
  ELSE [res |-> response, handled |-> Handled(FALSE, TRUE, 0)]

router(r) == IF impl = "part_000" THEN router_part000(r) ELSE router_server(r)

pathRewrite(path, r) ==
  IF impl = "part_000" THEN pathRewrite_part000(path, r) ELSE pathRewrite_server(path, r)

onProxyRes(headers) ==
  IF impl = "part_000" THEN onProxyRes_part000(headers) ELSE onProxyRes_server(headers)

onError(message, response) ==
  IF impl = "part_000" THEN onError_part000(message, response)
  ELSE onError_server(message, response)

(***************************************************************************)
(* The forwarder (createProxyMiddleware) driving the options.              *)
(***************************************************************************)
\* What the forwarder does with the router's answer r; h is what onError
\* does with the router's error.  A throw on a plain request is handed to
\* onError; a throw on an upgrade refuses the upgrade.
RouterOn(r, h) ==
  /\ routed' = r.value
  /\ validated' = IF r.ok THEN "accept"
                  ELSE IF r.threw /\ req.hasQuery THEN "reject"
                  ELSE validated
  /\ pc' = IF r.threw THEN "done" ELSE "rewrite"
  /\ res' = IF r.threw /\ req.kind = "http" THEN h.res ELSE res
  /\ handled' = IF r.threw /\ req.kind = "http" THEN h.handled ELSE handled

RouterAnswer(r) == RouterOn(r, onError(r.message, res))

\* The forwarder asks options.router for the target
Router ==
  /\ pc = "router"
  /\ RouterAnswer(router(req))
  /\ UNCHANGED <<impl, ALLOWLIST, req, verdict, outPath, contacted, hops>>

\* The forwarder asks options.pathRewrite for the outbound path
PathRewrite ==
  /\ pc = "rewrite"
  /\ outPath' = pathRewrite(InboundPath, req)
  /\ pc' = "forward"
  /\ UNCHANGED <<impl, ALLOWLIST, req, res, validated, verdict, routed, contacted,
                 hops, handled>>

\* The forwarder opens the connection to the routed target
Connect ==
  /\ pc = "forward"
  /\ contacted' = {routed}
  /\ pc' = IF req.kind = "upgrade" THEN "tunnel" ELSE "upstream"
  /\ UNCHANGED <<impl, ALLOWLIST, req, res, validated, verdict, routed, outPath,
                 hops, handled>>

UpstreamHeaderNames == {"server", "x-powered-by", "content-type"}

\* Where an upstream may redirect to
RedirectTargets == {<<"h", "t", "t", "p", "s", ":", "/", "/", "e", "x", ".", "c", "o", "m", "/", "n", "e", "x", "t">>, <<"h", "t", "t", "p", ":", "/", "/", "1", "2", "7", ".", "0", ".", "0", ".", "1", ":", "8", "0", "8", "0", "/">>}

\* followRedirects: true -- the forwarder follows a 3xx Location itself
followRedirects == TRUE

UpstreamRedirect ==
  /\ pc = "upstream"
  /\ followRedirects
  /\ hops < MaxRedirects
  /\ \E location \in RedirectTargets : contacted' = contacted \cup {location}
  /\ hops' = hops + 1
  /\ UNCHANGED <<impl, ALLOWLIST, pc, req, res, validated, verdict, routed, outPath,
                 handled>>

\* The upstream answers: onProxyRes runs, then the headers go to the client
UpstreamRespond ==
  /\ pc = "upstream"
  /\ \E headers \in SUBSET UpstreamHeaderNames :
       res' = [res EXCEPT !.statusCode = 200, !.headersSent = TRUE,
                          !.headers = onProxyRes(headers)]
  /\ pc' = "streaming"
  /\ UNCHANGED <<impl, ALLOWLIST, req, validated, verdict, routed, outPath, contacted,
                 hops, handled>>

\* The error object is made by the forwarding library and onError looks only
\* at its message; the messages cover a plain failure and one text that
\* begins with each program's marker
ErrorMessages == {<<"s", "o", "c", "k", "e", "t", " ", "h", "a", "n", "g", " ", "u", "p">>, <<"R", "E", "J", "E", "C", "T", "E", "D", "_", "T", "A", "R", "G", "E", "T", ":", "x">>, <<"R", "E", "J", "E", "C", "T", ":", "x">>}

\* The upstream fails, before or after the response headers went out
UpstreamError ==
  /\ pc \in {"upstream", "streaming"}
  /\ \E message \in ErrorMessages :
       /\ res' = onError(message, res).res
       /\ handled' = onError(message, res).handled
  /\ pc' = "done"
  /\ UNCHANGED <<impl, ALLOWLIST, req, validated, verdict, routed, outPath, contacted,
                 hops>>

\* The response body, or the tunnel, ends
Finish ==
  /\ pc \in {"streaming", "tunnel"}
  /\ pc' = "done"
  /\ UNCHANGED <<impl, ALLOWLIST, req, res, validated, verdict, routed, outPath,
                 contacted, hops, handled>>

Next ==
  \/ Receive
  \/ Close
  \/ Gate_part000
  \/ Gate_server
  \/ Router
  \/ PathRewrite
  \/ Connect
  \/ UpstreamRedirect
  \/ UpstreamRespond
  \/ UpstreamError
  \/ Finish

Spec == Init /\ [][Next]_vars

(***************************************************************************)
(* Vocabulary of the claims.  The target is the string handed to           *)
(* validation; its scheme and hostname are read off the standard (WHATWG)  *)
(* parse of it, whichever program runs.                                    *)
(***************************************************************************)
Target == UrlOrEmpty(req.url)

RefURL == WhatwgURL(Target)

RefHost == toLowerCase(RefURL.hostname)

AllowedProtocols == {<<"h", "t", "t", "p", ":">>, <<"h", "t", "t", "p", "s", ":">>, <<"w", "s", ":">>, <<"w", "s", "s", ":">>}

\* Equal to an allowlist entry, or a dot-separated subdomain of one
EntryOrSubdomain(h) ==
  \E entry \in ALLOWLIST : h = entry \/ endsWith(h, <<".">> \o entry)

LiteralHost(h) == ipv4Test(h) \/ includes(h, ":")

LocalHost(h) == h = <<"l", "o", "c", "a", "l", "h", "o", "s", "t">> \/ endsWith(h, <<".", "l", "o", "c", "a", "l", "h", "o", "s", "t">>)

PrivateReason ==
  IF impl = "part_000" THEN <<"P", "r", "i", "v", "a", "t", "e", " ", "h", "o", "s", "t", "s", " ", "a", "n", "d", " ", "I", "P", " ", "l", "i", "t", "e", "r", "a", "l", "s", " ", "a", "r", "e", " ", "b", "l", "o", "c", "k", "e", "d">>
  ELSE <<"P", "r", "i", "v", "a", "t", "e", "/", "i", "n", "v", "a", "l", "i", "d", " ", "h", "o", "s", "t">>

SchemeReason == <<"O", "n", "l", "y", " ", "H", "T", "T", "P", ",", " ", "H", "T", "T", "P", "S", ",", " ", "W", "S", ",", " ", "a", "n", "d", " ", "W", "S", "S", " ", "a", "r", "e", " ", "a", "l", "l", "o", "w", "e", "d">>

\* The /proxy gate has validated the target of a plain request and no
\* upstream has been contacted yet
GateValidated == req.kind = "http" /\ validated # "none" /\ contacted = {}

\* The forwarder has been handed the request
Forwarding == pc \in {"rewrite", "forward", "upstream", "streaming", "tunnel"}

\* C1: a target with an allowed scheme whose hostname is a dotted-decimal
\* IPv4 literal or contains ":" is rejected by validation with the
\* private/literal-host reason, whatever the allowlist holds.  (The claim
\* says so for every scheme; it is stated here for the four allowed schemes,
\* for which the scheme check cannot answer first.)
C1_LiteralHostRejected ==
  (GateValidated /\ RefURL.ok /\ RefURL.protocol \in AllowedProtocols
     /\ LiteralHost(RefURL.hostname))
  => (validated = "reject" /\ verdict.reason = PrivateReason)

\* C1 holds of part_000
C1_part000 == impl = "part_000" => C1_LiteralHostRejected

\* C2: a target whose scheme is not http, https, ws or wss is rejected with
\* the unsupported-scheme reason and a 400 response, even when its hostname
\* is in the allowlist.
C2_UnsupportedSchemeRejected ==
  (GateValidated /\ RefURL.ok /\ RefURL.protocol \notin AllowedProtocols)
  => (validated = "reject" /\ verdict.reason = SchemeReason /\ res.statusCode = 400)

\* C2 holds of part_000
C2_part000 == impl = "part_000" => C2_UnsupportedSchemeRejected

\* C3: a non-empty target that parses, has an allowed scheme, a hostname that
\* is no IP literal, holds no ":", is not localhost or below it, and equals
\* an allowlist entry or is a subdomain of one, is accepted.
C3_AllowlistedAccepted ==
  (GateValidated /\ Len(Target) > 0 /\ RefURL.ok
     /\ RefURL.protocol \in AllowedProtocols
     /\ ~LiteralHost(RefHost) /\ ~LocalHost(RefHost) /\ EntryOrSubdomain(RefHost))
  => validated = "accept"

\* C3 holds of part_000
C3_part000 == impl = "part_000" => C3_AllowlistedAccepted

\* Validation has answered and no upstream has been contacted yet
ValidationAnswered == validated # "none" /\ contacted = {}

EvilHostOf(entry) == <<"e", "v", "i", "l", "-">> \o entry \o <<".", "c", "o", "m">>

EvilHostRejected(u) ==
  \A entry \in ALLOWLIST :
     (u.ok /\ toLowerCase(u.hostname) = EvilHostOf(entry)) => validated = "reject"

\* C4 as claimed: for every allowlist entry, a target whose hostname is
\* "evil-" + entry + ".com" is rejected.
C4_EvilHostRejected == ValidationAnswered => EvilHostRejected(RefURL)

AcceptedOnlyEntryOrSubdomain(h) ==
  /\ validated = "accept" => EntryOrSubdomain(h)
  /\ \A entry \in ALLOWLIST :
        (h = EvilHostOf(entry) /\ ~EntryOrSubdomain(h)) => validated = "reject"

\* C4 as amended: validation accepts only a target that parses and whose
\* hostname equals an allowlist entry or is a dot-separated subdomain of one;
\* so "evil-" + entry + ".com" is rejected unless that name is itself an
\* entry or below one (as evil-com.com is below the entry com).
C4_AcceptedOnlyEntryOrSubdomain ==
  ValidationAnswered =>
    /\ validated = "accept" => RefURL.ok
    /\ AcceptedOnlyEntryOrSubdomain(RefHost)

\* C4 witness: the gate rejected "evil-" + entry + ".com" for an entry of
\* the allowlist, for want of an allowlist match
C4_EvilHostRejectedSeen ==
  /\ GateValidated
  /\ validated = "reject"
  /\ res.statusCode = 400
  /\ verdict.reason \in {<<"D", "o", "m", "a", "i", "n", " ", "i", "s", " ", "n", "o", "t", " ", "i", "n", " ", "P", "R", "O", "X", "Y", "_", "A", "L", "L", "O", "W", "L", "I", "S", "T">>, <<"H", "o", "s", "t", " ", "n", "o", "t", " ", "i", "n", " ", "a", "l", "l", "o", "w", "l", "i", "s", "t">>}
  /\ RefURL.ok
  /\ \E entry \in ALLOWLIST : RefHost = EvilHostOf(entry)

\* C5: when the request carries a url parameter, the forwarder is invoked and
\* an upstream contacted only after validation accepted; a rejection gives a
\* 400 JSON error and no upstream connection, and a rejected upgrade opens
\* no connection.
C5_ValidatedBeforeForwarding ==
  req.url.kind # "absent" =>
    /\ (req.kind = "http" /\ pc = "router") => validated = "accept"
    /\ (Forwarding \/ contacted # {}) => validated = "accept"
    /\ validated = "reject" => contacted = {}
    /\ (validated = "reject" /\ req.kind = "http") =>
         (res.statusCode = 400 /\ res.json # NoBody)

\* C5 holds of both programs when the url parameter is not empty
C5_NonEmptyUrl == Truthy(req.url) => C5_ValidatedBeforeForwarding

\* C6: a plain request with an allowed method and no url parameter is not
\* rejected; it is forwarded to the configured default upstream.
C6_MissingUrlGoesToDefault ==
  (req.kind = "http" /\ req.url.kind = "absent" /\ req.method \in allowedMethods
     /\ pc \notin {"idle", "gate"})
  => /\ validated # "reject"
     /\ pc # "router" => routed = DEFAULT_TARGET

\* C6 holds of server.js
C6_server == impl = "server_js" => C6_MissingUrlGoesToDefault

\* C7: the response relayed to the client holds neither a server header nor
\* an x-powered-by header, whatever the upstream sent.
C7_NoIdentifyingHeaders ==
  res.headers \cap {"server", "x-powered-by"} = {}

\* C7 holds of server.js
C7_server == impl = "server_js" => C7_NoIdentifyingHeaders

\* C8: an onError call made after the response headers were sent sets no
\* status code and writes no body, whatever the kind of error; a 502 is
\* written only while the headers are unsent.
C8_NoStatusAfterHeadersSent ==
  handled.called =>
    /\ handled.headersSentBefore => (handled.setStatus = 0 /\ ~handled.wroteBody)
    /\ handled.setStatus = 502 => ~handled.headersSentBefore

\* C8 holds of errors that do not carry the rejected-target marker
C8_GenericErrors == (handled.called /\ ~handled.marker) => C8_NoStatusAfterHeadersSent

\* The origin and the path and query of the target the gate validated
GateOrigin ==
  IF impl = "part_000" THEN verdict.target.origin
  ELSE verdict.target.protocol \o <<"/", "/">> \o verdict.target.host

GatePath ==
  IF impl = "part_000" THEN verdict.target.pathname \o verdict.target.search
  ELSE verdict.target.pathname \o verdict.target.query

\* C9: for a request the gate accepted, the router's target is exactly the
\* scheme, host and port of the target the gate validated, and the outbound
\* path is its path and query, not the inbound path.
C9_SameDestination ==
  (req.kind = "http" /\ validated = "accept"
     /\ pc \in {"forward", "upstream", "streaming"})
  => (routed = GateOrigin /\ outPath = GatePath /\ outPath # InboundPath)

\* C9 holds of part_000
C9_part000 == impl = "part_000" => C9_SameDestination

\* Whether the running program's validation accepts a URL
Validates(u) ==
  IF impl = "part_000" THEN parseAndValidateTarget(u).ok ELSE allowedTarget(u).ok

\* C10: for a request with a url parameter, every URL the forwarder opens a
\* connection to, redirects included, passes target validation.
C10_OnlyValidatedHostsContacted ==
  Truthy(req.url) => \A u \in contacted : Validates(u)

\* C10 holds of the first connection of an exchange, before any redirect
C10_FirstConnection ==
  (Truthy(req.url) /\ hops = 0) => \A u \in contacted : Validates(u)

=============================================================================
